---- MODULE Spec2Model ----
(***************************************************************************)
(* A model of officehours_api/backends/bluejeans.py: the BluejeansClient   *)
(* (token cache, user lookup, meeting requests) and the Backend adapter's  *)
(* save_user_meeting.  Time is counted in ticks of 1/TicksPerSec second,   *)
(* so that round(time.time()) is a real rounding.  The clock moves        *)
(* between calls; every response of the provider is drawn from a small     *)
(* set.                                                                    *)
(***************************************************************************)
EXTENDS Integers, Sequences, FiniteSets, TLC

VARIABLES
    now,            \* time.time(), in ticks
    client,         \* the fields of the one BluejeansClient instance
    metadata,       \* the host's backend_metadata mapping (one record)
    recordCreates,  \* number of create-meeting requests issued for the record
    recordMeetings, \* number of meetings the provider created for the record
    lastTokenResp,  \* the most recent successful token response (observer)
    lastCall,       \* what the most recent sequential call did (observer)
    pc,             \* position of each interleaved save_user_meeting call
    local           \* locals of each interleaved save_user_meeting call

vars == <<now, client, metadata, recordCreates, recordMeetings, lastTokenResp,
          lastCall, pc, local>>

----------------------------------------------------------------------------
(* Bounds of the model *)

TicksPerSec == 2
MaxTime == 3
MaxExpiresIn == 3600
MaxCount == 2
MaxCreates == 2

(* Program constants *)

ExpiryMarginSecs == 60
(* Variant: the window in seconds, the factor 1000 forgotten. *)
MeetingWindowSecs == 60 * 30

MeetingWindowMs == 60 * 30 * 1000
MsPerSec == 1000

(* Ids the provider hands out; 0 stands for a meeting id that is false. *)
UserIds == {1, 2}
MeetingIds == {0, 7, 8}
NumericIds == {1234567890}
Callers == {1, 2}

BaseUrl == "https://api.bluejeans.com"
MeetingUrlBase == "https://bluejeans.com/"

(* Statuses of the provider: a success, one that raise_for_status lets
   pass although it is no success, the absence, a server error. *)
HttpStatuses == {200, 300, 404, 500}
PassingStatuses == { s \in HttpStatuses : s < 400 }

Assignees ==
    { [email |-> "ta@umich.edu", username |-> "ta"],
      [email |-> "prof@umich.edu", username |-> "prof"] }

(* Python's None for a string-valued field, as f'{None}' prints it. *)
None == "None"

----------------------------------------------------------------------------
(* Library behaviour the code relies on *)

(* requests.Response.raise_for_status: raises HTTPError for 4xx and 5xx. *)
RaiseForStatus(status) == status >= 400 /\ status < 600

(* round() of a float of seconds, given in ticks: nearest integer, halves
   to the even neighbour. *)
Round(t) ==
    LET q == t \div TicksPerSec
        r == t % TicksPerSec
    IN  IF 2 * r < TicksPerSec THEN q
        ELSE IF 2 * r > TicksPerSec THEN q + 1
        ELSE IF q % 2 = 0 THEN q ELSE q + 1

(* v bound to a name in F: LET with the value computed once. *)
Bind(v, F(_)) == CHOOSE r \in { F(x) : x \in {v} } : TRUE

(* dict.update(): the keys of new overwrite, the others keep their value. *)
DictUpdate(m, new) ==
    [k \in (DOMAIN m) \cup (DOMAIN new) |->
        IF k \in DOMAIN new THEN new[k] ELSE m[k]]

(* Truth value of a meeting_id in a mapping of the host: None, 0 and ''
   are all false; the model writes every false id as 0. *)
Truthy(v) == v # 0

----------------------------------------------------------------------------
(* Responses of the provider *)

TokenName(i) == "tok" \o ToString(i)
EnterpriseName(i) == "ent" \o ToString(i)

(* POST /oauth2/token?Client: a status, and a body {access_token,
   expires_in, scope: {enterprise}} with every status whose body the code
   reads; the lifetimes are the shortest and the longest. *)
TokenResponses ==
    { [status |-> s, access_token |-> TokenName(e), expires_in |-> e,
       enterprise |-> EnterpriseName(e)]
        : s \in PassingStatuses, e \in {0, MaxExpiresIn} }
    \cup
    { [status |-> 401, access_token |-> None, expires_in |-> 0, enterprise |-> None] }

(* The id of the provider account that goes with an email address *)
AccountId(email) == IF email = "ta@umich.edu" THEN 1 ELSE 2

(* GET /v1/enterprise/{id}/users: a status, and a body {count, users} with
   every status whose body the code reads; no match, one, or MaxCount. *)
UserResponses(email) ==
    { [status |-> s, count |-> n,
       users |-> [i \in 1..n |-> [id |-> AccountId(email) + i - 1, email |-> email]]]
        : s \in PassingStatuses, n \in {0, 1, MaxCount} }
    \cup
    { [status |-> s, count |-> 0, users |-> <<>>] : s \in HttpStatuses \ PassingStatuses }

(* POST .../scheduled_meeting: a status, and the created meeting with
   every status whose body the code reads. *)
MeetingResponses ==
    { [status |-> s, id |-> i, numericMeetingId |-> n]
        : s \in PassingStatuses, i \in MeetingIds, n \in NumericIds }
    \cup
    { [status |-> 500, id |-> 0, numericMeetingId |-> 0] }   \* no body is read

NoTokenResp ==
    [valid |-> FALSE, access_token |-> None, expires_in |-> 0,
     enterprise |-> None, at |-> 0]

----------------------------------------------------------------------------
(* BluejeansClient *)

NewClient ==
    [access_token |-> None, access_token_expires |-> 0,
     enterprise_id |-> None, authorization |-> None]

(* Variant: the expiry ahead of the clock, now + expires_in - 60. *)
UpdateAccessTokenAhead(c, resp, t) ==
    IF RaiseForStatus(resp.status)
    THEN [raised |-> TRUE, client |-> c]
    ELSE [raised |-> FALSE,
          client |-> [c EXCEPT
              !.access_token = resp.access_token,
              !.access_token_expires =
                  t + resp.expires_in * TicksPerSec - ExpiryMarginSecs * TicksPerSec,
              !.enterprise_id = resp.enterprise]]

(* _update_access_token, lines 49-63, at time t. *)
UpdateAccessToken(c, resp, t) ==
    IF RaiseForStatus(resp.status)
    THEN [raised |-> TRUE, client |-> c]
    ELSE [raised |-> FALSE,
          client |-> [c EXCEPT
              !.access_token = resp.access_token,
              !.access_token_expires =
                  t - resp.expires_in * TicksPerSec - ExpiryMarginSecs * TicksPerSec,
              !.enterprise_id = resp.enterprise]]

(* Variant: the Authorization header is set for the first token only. *)
SessionStaleHeader(c, resp, t) ==
    IF t > c.access_token_expires
    THEN Bind(UpdateAccessToken(c, resp, t), LAMBDA u :
             IF u.raised
             THEN [requested |-> TRUE, raised |-> TRUE, client |-> c]
             ELSE [requested |-> TRUE, raised |-> FALSE,
                   client |-> IF c.authorization = None
                              THEN [u.client EXCEPT
                                  !.authorization = "Bearer " \o u.client.access_token]
                              ELSE u.client])
    ELSE [requested |-> FALSE, raised |-> FALSE, client |-> c]

(* The _session property, lines 38-47, at time t. *)
Session(c, resp, t) ==
    IF t > c.access_token_expires
    THEN Bind(UpdateAccessToken(c, resp, t), LAMBDA u :
             IF u.raised
             THEN [requested |-> TRUE, raised |-> TRUE, client |-> c]
             ELSE [requested |-> TRUE, raised |-> FALSE,
                   client |-> [u.client EXCEPT
                       !.authorization = "Bearer " \o u.client.access_token]])
    ELSE [requested |-> FALSE, raised |-> FALSE, client |-> c]

(* Observer: was the lifetime of the last token response still running at t? *)
Fresh(ltr, t) ==
    ltr.valid /\ ltr.expires_in > 0 /\ t < ltr.at + ltr.expires_in * TicksPerSec

(* One evaluation of self._session at time t: the client after it, and
   what an observer of the wire saw.  The client around the access is
   kept for a failed token request only. *)
SessionAccess(c, ltr, resp, t) ==
    Bind(Session(c, resp, t), LAMBDA s :
        [client |-> s.client,
         raised |-> s.raised,
         ltr |-> IF s.requested /\ ~s.raised
                 THEN [valid |-> TRUE, access_token |-> resp.access_token,
                       expires_in |-> resp.expires_in,
                       enterprise |-> resp.enterprise, at |-> t]
                 ELSE ltr,
         seen |-> [requested |-> s.requested, raised |-> s.raised,
                   fresh |-> Fresh(ltr, t),
                   before |-> IF s.raised THEN c ELSE NewClient,
                   after |-> IF s.raised THEN s.client ELSE NewClient]])

(* An API request as sent: self._session is evaluated before the URL is
   built, so the URL and the header are those of the client after it.
   token and enterprise are those of the last successful token response. *)
Request(method, url, a) ==
    [method |-> method, url |-> url, authorization |-> a.client.authorization,
     token |-> a.ltr.access_token, enterprise |-> a.ltr.enterprise]

NoUser == [id |-> 0, email |-> None]
NoMeeting == [id |-> 0, numericMeetingId |-> 0]
NoPayload == <<>>

(* Variant: several matches give the first of them. *)
GetUserResultFirstMatch(resp) ==
    IF resp.status = 404 THEN [outcome |-> "None", user |-> NoUser]
    ELSE IF RaiseForStatus(resp.status)
        THEN [outcome |-> "HTTPError", user |-> NoUser]
    ELSE IF resp.count = 0 THEN [outcome |-> "None", user |-> NoUser]
    ELSE [outcome |-> "user", user |-> resp.users[1]]

(* get_user, lines 74-82: the outcome for one response of the provider. *)
GetUserResult(resp) ==
    IF resp.status = 404 THEN [outcome |-> "None", user |-> NoUser]
    ELSE IF RaiseForStatus(resp.status)
        THEN [outcome |-> "HTTPError", user |-> NoUser]
    ELSE IF resp.count > 1 THEN [outcome |-> "TooManyUsers", user |-> NoUser]
    ELSE IF resp.count = 0 THEN [outcome |-> "None", user |-> NoUser]
    ELSE [outcome |-> "user", user |-> resp.users[1]]

UsersUrl(enterprise_id) ==
    BaseUrl \o "/v1/enterprise/" \o enterprise_id \o "/users"

(* get_user as a whole, lines 65-82, at time t. *)
GetUserCall(c, ltr, email, tresp, uresp, t) ==
    Bind(SessionAccess(c, ltr, tresp, t), LAMBDA a :
        IF a.raised
        THEN [client |-> a.client, ltr |-> a.ltr,
              accesses |-> <<a.seen>>, requests |-> <<>>,
              outcome |-> "HTTPError", user |-> NoUser]
        ELSE [client |-> a.client, ltr |-> a.ltr,
              accesses |-> <<a.seen>>,
              requests |-> <<Request("GET", UsersUrl(a.client.enterprise_id), a)>>,
              outcome |-> GetUserResult(uresp).outcome,
              user |-> GetUserResult(uresp).user])

(* Meeting settings as an argument: None, or a mapping (possibly empty). *)
NoSettings == [isNone |-> TRUE, map |-> <<>>]
EmptySettings == [isNone |-> FALSE, map |-> <<>>]
CustomSettings ==
    [isNone |-> FALSE,
     map |-> [title |-> "Exam review", start |-> 5000, end |-> 6000]]

(* `not meeting_settings`, line 87 *)
SettingsFalsy(settings) == settings.isNone \/ DOMAIN settings.map = {}

(* The default settings of create_meeting, lines 88-96; ms is `now`. *)
DefaultSettings(ms) ==
    [title |-> "Remote Office Hours",
     description |-> "",
     start |-> ms,
     end |-> ms + MeetingWindowMs,
     timezone |-> "America/Detroit",
     endPointType |-> "WEB_APP",
     endPointVersion |-> "2.10"]

MeetingsUrl(user_id) ==
    BaseUrl \o "/v1/user/" \o ToString(user_id) \o "/scheduled_meeting"

MeetingUrl(user_id, meeting_id) ==
    MeetingsUrl(user_id) \o "/" \o ToString(meeting_id)

(* create_meeting as a whole, lines 84-104, at time t. *)
CreateMeetingCall(c, ltr, user_id, settings, tresp, mresp, t) ==
    Bind(SessionAccess(c, ltr, tresp, t), LAMBDA a :
        IF a.raised
        THEN [client |-> a.client, ltr |-> a.ltr,
              accesses |-> <<a.seen>>, requests |-> <<>>,
              payload |-> NoPayload,
              outcome |-> "HTTPError", meeting |-> NoMeeting]
        ELSE [client |-> a.client, ltr |-> a.ltr,
              accesses |-> <<a.seen>>,
              requests |-> <<Request("POST", MeetingsUrl(user_id), a)>>,
              payload |-> IF SettingsFalsy(settings)
                          THEN DefaultSettings(Round(t) * MsPerSec)
                          ELSE settings.map,
              outcome |-> IF RaiseForStatus(mresp.status) THEN "HTTPError" ELSE "ok",
              meeting |-> IF RaiseForStatus(mresp.status) THEN NoMeeting
                          ELSE [id |-> mresp.id,
                                numericMeetingId |-> mresp.numericMeetingId]])

(* read_meeting, update_meeting and delete_meeting, lines 106-128: one
   request on the meeting's URL, raise_for_status on its response. *)
MeetingCall(c, ltr, method, user_id, meeting_id, tresp, status, t) ==
    Bind(SessionAccess(c, ltr, tresp, t), LAMBDA a :
        IF a.raised
        THEN [client |-> a.client, ltr |-> a.ltr,
              accesses |-> <<a.seen>>, requests |-> <<>>,
              outcome |-> "HTTPError"]
        ELSE [client |-> a.client, ltr |-> a.ltr,
              accesses |-> <<a.seen>>,
              requests |-> <<Request(method, MeetingUrl(user_id, meeting_id), a)>>,
              outcome |-> IF RaiseForStatus(status) THEN "HTTPError" ELSE "ok"])

----------------------------------------------------------------------------
(* Backend *)

EmptyMeta == [k \in {} |-> 0]

(* Mappings the host may hand in: a new record, a record with a false
   meeting_id and stale fields, a record with a meeting_id and nothing else. *)
InitialMetadata ==
    { EmptyMeta,
      ("meeting_id" :> 0) @@ ("user_id" :> 9) @@ ("meeting_url" :> "stale")
          @@ ("note" :> "kept"),
      ("meeting_id" :> 5) @@ ("note" :> "kept") }

(* Variant: a record counts as provisioned only with a user_id as well. *)
ProvisionedWithUser(m) ==
    "meeting_id" \in DOMAIN m /\ Truthy(m["meeting_id"]) /\ "user_id" \in DOMAIN m

(* Variant: the check of line 149 is missing. *)
ProvisionedNever(m) == FALSE

(* `backend_metadata.get('meeting_id')`, line 149 *)
Provisioned(m) == "meeting_id" \in DOMAIN m /\ Truthy(m["meeting_id"])

(* Variant: the message names the username, not the email. *)
NoAccountMessageByName(assignee) ==
    << "There is no BlueJeans account associated with ", assignee.username,
       ". Please log into umich.bluejeans.com, then try again." >>

(* The text of the ValidationError, lines 155-156, as its parts. *)
NoAccountMessage(assignee) ==
    << "There is no BlueJeans account associated with ", assignee.email,
       ". Please log into umich.bluejeans.com, then try again." >>

(* The settings save_user_meeting passes, lines 162-177; ms is `now`. *)
SaveSettings(ms) ==
    [isNone |-> FALSE,
     map |-> [title |-> "Remote Office Hours",
              description |-> "This meeting was created by the Remote Office Hours Queue application. See https://documentation.its.umich.edu/node/1830",
              advancedMeetingOptions |-> [moderatorLess |-> TRUE],
              start |-> ms,
              end |-> ms + MeetingWindowMs,
              timezone |-> "America/Detroit",
              endPointType |-> "WEB_APP",
              endPointVersion |-> "2.10"]]

(* Variant: meeting_id takes the numeric id. *)
MeetingFieldsNumeric(user, meeting) ==
    LET meeting_url == MeetingUrlBase \o ToString(meeting.numericMeetingId)
    IN  ("user_id" :> user.id)
        @@ ("meeting_id" :> meeting.numericMeetingId)
        @@ ("numeric_meeting_id" :> meeting.numericMeetingId)
        @@ ("meeting_url" :> meeting_url)
        @@ ("host_meeting_url" :> meeting_url)

(* The keys save_user_meeting writes, lines 179-186. *)
MeetingFields(user, meeting) ==
    LET meeting_url == MeetingUrlBase \o ToString(meeting.numericMeetingId)
    IN  ("user_id" :> user.id)
        @@ ("meeting_id" :> meeting.id)
        @@ ("numeric_meeting_id" :> meeting.numericMeetingId)
        @@ ("meeting_url" :> meeting_url)
        @@ ("host_meeting_url" :> meeting_url)

(* Lines 152-157 of save_user_meeting: the lookup, and the ValidationError
   when get_user returns None. *)
SaveLookup(c, ltr, assignee, tresp, uresp, t) ==
    Bind(GetUserCall(c, ltr, assignee.email, tresp, uresp, t), LAMBDA g :
        [client |-> g.client, ltr |-> g.ltr,
         accesses |-> g.accesses, requests |-> g.requests,
         user |-> g.user,
         outcome |-> IF g.outcome = "None" THEN "ValidationError" ELSE g.outcome,
         message |-> IF g.outcome = "None" THEN NoAccountMessage(assignee)
                     ELSE <<>>])

(* Lines 159-178 of save_user_meeting: the meeting is created. *)
SaveCreate(c, ltr, user, tresp, mresp, t) ==
    CreateMeetingCall(c, ltr, user.id, SaveSettings(Round(t) * MsPerSec),
                      tresp, mresp, t)

(* Variant: a mapping that has a meeting_id by now is left alone. *)
SaveStoreFirstWins(m, user, meeting) ==
    IF "meeting_id" \in DOMAIN m /\ Truthy(m["meeting_id"]) THEN m
    ELSE DictUpdate(m, MeetingFields(user, meeting))

(* Lines 179-187 of save_user_meeting: the mapping is updated in place. *)
SaveStore(m, user, meeting) == DictUpdate(m, MeetingFields(user, meeting))

----------------------------------------------------------------------------
(* The state after construction, and the clock *)

NoUserResp == [status |-> 0, count |-> 0, users |-> <<>>]

NoCall ==
    [op |-> "none", email |-> None, accesses |-> <<>>, requests |-> <<>>,
     resp |-> NoUserResp, outcome |-> "none", user |-> NoUser,
     settings |-> NoSettings, payload |-> NoPayload, meeting |-> NoMeeting,
     message |-> <<>>, metaBefore |-> EmptyMeta, returned |-> EmptyMeta]

NoAssignee == [email |-> None, username |-> None]
NoLocal == [assignee |-> NoAssignee, user |-> NoUser, meeting |-> NoMeeting]

(* A response that is never read is not enumerated. *)
Read(S, isRead) == IF isRead THEN S ELSE {CHOOSE x \in S : TRUE}

Init ==
    /\ now = 1
    /\ client = NewClient
    /\ metadata \in InitialMetadata
    /\ recordCreates = 0
    /\ recordMeetings = 0
    /\ lastTokenResp = NoTokenResp
    /\ lastCall = NoCall
    /\ pc = [t \in Callers |-> "idle"]
    /\ local = [t \in Callers |-> NoLocal]

(* Between two calls, and between the steps of interleaved calls, the
   clock moves on by less than a tick or by one tick; the observer's note
   of the last call is dropped, and the next call starts without one. *)
Tick ==
    /\ \E d \in {0, 1} : now + d <= MaxTime /\ now' = now + d
    /\ lastCall' = NoCall
    /\ UNCHANGED <<client, metadata, recordCreates, recordMeetings,
                   lastTokenResp, pc, local>>

----------------------------------------------------------------------------
(* The sequential behaviours: one call at a time, each a whole handler. *)

GetUser ==
    /\ lastCall = NoCall
    /\ \E a \in Assignees :
       \E tresp \in TokenResponses :
       \E uresp \in Read(UserResponses(a.email), ~RaiseForStatus(tresp.status)) :
       \E r \in {GetUserCall(client, lastTokenResp, a.email, tresp, uresp, now)} :
           /\ client' = r.client
           /\ lastTokenResp' = r.ltr
           /\ lastCall' = [NoCall EXCEPT
                  !.op = "get_user", !.email = a.email,
                  !.accesses = r.accesses, !.requests = r.requests,
                  !.resp = IF r.requests = <<>> THEN NoUserResp ELSE uresp,
                  !.outcome = r.outcome, !.user = r.user]
           /\ UNCHANGED <<now, metadata, recordCreates, recordMeetings, pc, local>>

CreateMeeting ==
    /\ lastCall = NoCall
    /\ \E user_id \in UserIds :
       \E settings \in {NoSettings, EmptySettings, CustomSettings} :
       \E tresp \in TokenResponses :
       \E mresp \in Read(MeetingResponses, ~RaiseForStatus(tresp.status)) :
       \E r \in {CreateMeetingCall(client, lastTokenResp, user_id, settings,
                                   tresp, mresp, now)} :
           /\ client' = r.client
           /\ lastTokenResp' = r.ltr
           /\ lastCall' = [NoCall EXCEPT
                  !.op = "create_meeting",
                  !.accesses = r.accesses, !.requests = r.requests,
                  !.settings = settings, !.payload = r.payload,
                  !.outcome = r.outcome, !.meeting = r.meeting]
           /\ UNCHANGED <<now, metadata, recordCreates, recordMeetings, pc, local>>

MeetingOp(op, method) ==
    /\ lastCall = NoCall
    /\ \E user_id \in UserIds, meeting_id \in MeetingIds :
       \E tresp \in TokenResponses :
       \E status \in Read(HttpStatuses, ~RaiseForStatus(tresp.status)) :
       \E r \in {MeetingCall(client, lastTokenResp, method, user_id, meeting_id,
                             tresp, status, now)} :
           /\ client' = r.client
           /\ lastTokenResp' = r.ltr
           /\ lastCall' = [NoCall EXCEPT
                  !.op = op,
                  !.accesses = r.accesses, !.requests = r.requests,
                  !.outcome = r.outcome]
           /\ UNCHANGED <<now, metadata, recordCreates, recordMeetings, pc, local>>

ReadMeeting == MeetingOp("read_meeting", "GET")

UpdateMeeting == MeetingOp("update_meeting", "PUT")

DeleteMeeting == MeetingOp("delete_meeting", "DELETE")

(* save_user_meeting, lines 148-187, as one step.  The three disjuncts are
   its three ways through: the early return of line 150, an exception
   before a user is found, and the creation of the meeting. *)
SaveUserMeeting ==
    \/ /\ lastCall = NoCall
       /\ Provisioned(metadata)
       /\ \E a \in Assignees :
              lastCall' = [NoCall EXCEPT
                  !.op = "save_user_meeting", !.email = a.email,
                  !.outcome = "returned",
                  !.metaBefore = metadata, !.returned = metadata]
       /\ UNCHANGED <<now, client, metadata, recordCreates, recordMeetings,
                      lastTokenResp, pc, local>>
    \/ /\ lastCall = NoCall
       /\ ~Provisioned(metadata)
       /\ \E a \in Assignees :
          \E tresp \in TokenResponses :
          \E uresp \in Read(UserResponses(a.email), ~RaiseForStatus(tresp.status)) :
          \E g \in {SaveLookup(client, lastTokenResp, a, tresp, uresp, now)} :
              /\ g.outcome # "user"
              /\ client' = g.client
              /\ lastTokenResp' = g.ltr
              /\ lastCall' = [NoCall EXCEPT
                     !.op = "save_user_meeting", !.email = a.email,
                     !.accesses = g.accesses, !.requests = g.requests,
                     !.resp = IF g.requests = <<>> THEN NoUserResp ELSE uresp,
                     !.outcome = g.outcome, !.message = g.message,
                     !.metaBefore = metadata]
       /\ UNCHANGED <<now, metadata, recordCreates, recordMeetings, pc, local>>
    \/ /\ lastCall = NoCall
       /\ ~Provisioned(metadata)
       /\ recordCreates < MaxCreates
       /\ \E a \in Assignees :
          \E tresp1 \in TokenResponses :
          \E uresp \in Read(UserResponses(a.email), ~RaiseForStatus(tresp1.status)) :
          \E g \in {SaveLookup(client, lastTokenResp, a, tresp1, uresp, now)} :
              /\ g.outcome = "user"
              /\ \E tresp2 \in TokenResponses :
                 \E mresp \in Read(MeetingResponses, ~RaiseForStatus(tresp2.status)) :
                 \E cm \in {SaveCreate(g.client, g.ltr, g.user, tresp2, mresp, now)} :
                 \E m \in {IF cm.outcome = "ok"
                           THEN SaveStore(metadata, g.user, cm.meeting)
                           ELSE metadata} :
                     /\ client' = cm.client
                     /\ lastTokenResp' = cm.ltr
                     /\ metadata' = m
                     /\ recordCreates' = recordCreates + Len(cm.requests)
                     /\ recordMeetings' =
                            recordMeetings + (IF cm.outcome = "ok" THEN 1 ELSE 0)
                     /\ lastCall' = [NoCall EXCEPT
                            !.op = "save_user_meeting", !.email = a.email,
                            !.accesses = g.accesses \o cm.accesses,
                            !.requests = g.requests \o cm.requests,
                            !.outcome = IF cm.outcome = "ok" THEN "returned"
                                        ELSE cm.outcome,
                            !.resp = uresp,
                            !.user = g.user, !.payload = cm.payload,
                            !.meeting = cm.meeting,
                            !.metaBefore = metadata,
                            !.returned = IF cm.outcome = "ok" THEN m
                                         ELSE EmptyMeta]
       /\ UNCHANGED <<now, pc, local>>

----------------------------------------------------------------------------
(* Two save_user_meeting calls of the host for one assignee and one
   mapping, interleaved at the calls save_user_meeting makes: the check of
   line 149, the lookup, the creation, the update of the mapping. *)

SaveBegin(t) ==
    /\ pc[t] = "idle"
    /\ \E a \in { x \in Assignees :
                    \A u \in Callers : pc[u] = "idle" \/ local[u].assignee = x } :
           local' = [local EXCEPT ![t].assignee = a]
    /\ pc' = [pc EXCEPT ![t] = IF Provisioned(metadata) THEN "done" ELSE "lookup"]
    /\ UNCHANGED <<now, client, metadata, recordCreates, recordMeetings,
                   lastTokenResp, lastCall>>

SaveLookupStep(t) ==
    /\ pc[t] = "lookup"
    /\ \E tresp \in TokenResponses :
       \E uresp \in Read(UserResponses(local[t].assignee.email),
                         ~RaiseForStatus(tresp.status)) :
       \E g \in {SaveLookup(client, lastTokenResp, local[t].assignee,
                            tresp, uresp, now)} :
           /\ client' = g.client
           /\ lastTokenResp' = g.ltr
           /\ local' = [local EXCEPT ![t].user = g.user]
           /\ pc' = [pc EXCEPT ![t] = IF g.outcome = "user" THEN "create"
                                      ELSE "raised"]
    /\ UNCHANGED <<now, metadata, recordCreates, recordMeetings, lastCall>>

SaveCreateStep(t) ==
    /\ pc[t] = "create"
    /\ \E tresp \in TokenResponses :
       \E mresp \in Read(MeetingResponses, ~RaiseForStatus(tresp.status)) :
       \E cm \in {SaveCreate(client, lastTokenResp, local[t].user,
                             tresp, mresp, now)} :
           /\ client' = cm.client
           /\ lastTokenResp' = cm.ltr
           /\ recordCreates' = recordCreates + Len(cm.requests)
           /\ recordMeetings' = recordMeetings + (IF cm.outcome = "ok" THEN 1 ELSE 0)
           /\ local' = [local EXCEPT ![t].meeting = cm.meeting]
           /\ pc' = [pc EXCEPT ![t] = IF cm.outcome = "ok" THEN "store"
                                      ELSE "raised"]
    /\ UNCHANGED <<now, metadata, lastCall>>

SaveStoreStep(t) ==
    /\ pc[t] = "store"
    /\ metadata' = SaveStore(metadata, local[t].user, local[t].meeting)
    /\ pc' = [pc EXCEPT ![t] = "done"]
    /\ UNCHANGED <<now, client, recordCreates, recordMeetings, lastTokenResp,
                   lastCall, local>>

NextRace ==
    \/ Tick
    \/ \E t \in Callers : SaveBegin(t)
    \/ \E t \in Callers : SaveLookupStep(t)
    \/ \E t \in Callers : SaveCreateStep(t)
    \/ \E t \in Callers : SaveStoreStep(t)

Next ==
    \/ Tick
    \/ GetUser
    \/ CreateMeeting
    \/ ReadMeeting
    \/ UpdateMeeting
    \/ DeleteMeeting
    \/ SaveUserMeeting

Spec == Init /\ [][Next]_vars
SpecRace == Init /\ [][NextRace]_vars

----------------------------------------------------------------------------
(* Properties *)

Accesses == { lastCall.accesses[i] : i \in DOMAIN lastCall.accesses }
Requests == { lastCall.requests[i] : i \in DOMAIN lastCall.requests }
Is2xx(status) == status >= 200 /\ status < 300
HasMeetingId(m) == "meeting_id" \in DOMAIN m
HasTruthyMeetingId(m) == "meeting_id" \in DOMAIN m /\ m["meeting_id"] # 0
WrittenKeys ==
    {"user_id", "meeting_id", "numeric_meeting_id", "meeting_url", "host_meeting_url"}

(* C1: while the lifetime of the last token response (expires_in > 0) has
   not elapsed, an API call issues no token request: the token is reused. *)
C1_FreshTokenIsReused ==
    \A a \in Accesses : a.fresh => ~a.requested

(* C2, as claimed: save_user_meeting on a mapping that carries a meeting_id,
   whatever its value, returns the mapping unchanged and issues no HTTP
   call. *)
C2_AnyMeetingIdIsNoOp ==
    (lastCall.op = "save_user_meeting" /\ HasMeetingId(lastCall.metaBefore))
    => /\ lastCall.outcome = "returned"
       /\ lastCall.returned = lastCall.metaBefore
       /\ metadata = lastCall.metaBefore
       /\ lastCall.accesses = <<>>
       /\ lastCall.requests = <<>>

(* C2, amended: save_user_meeting on a mapping whose meeting_id is true
   (not None, 0 or '') returns the mapping unchanged and issues no HTTP
   call: no token request, no user lookup, no meeting creation. *)
C2_TruthyMeetingIdIsNoOp ==
    (lastCall.op = "save_user_meeting" /\ HasTruthyMeetingId(lastCall.metaBefore))
    => /\ lastCall.outcome = "returned"
       /\ lastCall.returned = lastCall.metaBefore
       /\ metadata = lastCall.metaBefore
       /\ lastCall.accesses = <<>>
       /\ lastCall.requests = <<>>

C2_Witness ==
    /\ lastCall.op = "save_user_meeting"
    /\ HasTruthyMeetingId(lastCall.metaBefore)
    /\ "user_id" \notin DOMAIN lastCall.metaBefore
    /\ lastCall.returned = lastCall.metaBefore

(* C3: when the lookup of save_user_meeting reports no account (404, or an
   answer whose body has count 0) the call ends in a ValidationError whose message
   contains the assignee's email, no create-meeting request is sent, and the
   mapping is left as it was, still unprovisioned for the next call. *)
C3_NoAccountIsValidationError ==
    (/\ lastCall.op = "save_user_meeting"
     /\ lastCall.requests # <<>>
     /\ \/ lastCall.resp.status = 404
        \/ ~RaiseForStatus(lastCall.resp.status) /\ lastCall.resp.count = 0)
    => /\ lastCall.outcome = "ValidationError"
       /\ \E i \in DOMAIN lastCall.message : lastCall.message[i] = lastCall.email
       /\ \A r \in Requests : r.method # "POST"
       /\ Len(lastCall.requests) = 1
       /\ metadata = lastCall.metaBefore
       /\ ~HasTruthyMeetingId(metadata)

C3_Witness ==
    /\ lastCall.op = "save_user_meeting"
    /\ lastCall.requests # <<>>
    /\ lastCall.resp.status = 404
    /\ lastCall.outcome = "ValidationError"
    /\ lastCall.email = "prof@umich.edu"

(* C4, as claimed: get_user gives None for 404 and for a 2xx answer with
   count 0, the first user for count 1, an exception that is not the
   absence for count > 1, and raises for every other status that is not
   2xx. *)
C4_EveryNon2xxRaises ==
    (lastCall.op = "get_user" /\ lastCall.requests # <<>>)
    => LET resp == lastCall.resp
       IN  /\ resp.status = 404 => lastCall.outcome = "None"
           /\ (Is2xx(resp.status) /\ resp.count = 0) => lastCall.outcome = "None"
           /\ (Is2xx(resp.status) /\ resp.count = 1)
              => (lastCall.outcome = "user" /\ lastCall.user = resp.users[1])
           /\ (Is2xx(resp.status) /\ resp.count > 1)
              => lastCall.outcome = "TooManyUsers"
           /\ (~Is2xx(resp.status) /\ resp.status # 404)
              => lastCall.outcome \in {"HTTPError", "TooManyUsers"}

(* C4, amended: get_user gives None for 404, an HTTP error for every other
   4xx or 5xx status, and reads the body of every other answer, 2xx or not:
   None for count 0, the first user for count 1, an exception that is not
   the absence for count > 1. *)
C4_GetUserOutcomes ==
    (lastCall.op = "get_user" /\ lastCall.requests # <<>>)
    => LET resp == lastCall.resp
       IN  /\ resp.status = 404 => lastCall.outcome = "None"
           /\ (resp.status >= 400 /\ resp.status # 404)
              => lastCall.outcome = "HTTPError"
           /\ (resp.status < 400 /\ resp.count = 0) => lastCall.outcome = "None"
           /\ (resp.status < 400 /\ resp.count = 1)
              => (lastCall.outcome = "user" /\ lastCall.user = resp.users[1])
           /\ (resp.status < 400 /\ resp.count > 1)
              => lastCall.outcome = "TooManyUsers"

C4_Witness ==
    /\ lastCall.op = "get_user"
    /\ lastCall.requests # <<>>
    /\ ~Is2xx(lastCall.resp.status) /\ lastCall.resp.status < 400
    /\ lastCall.resp.count = 1
    /\ lastCall.outcome = "user"

(* C5: after a save_user_meeting that created the meeting, the mapping
   returned has user_id, meeting_id and numeric_meeting_id as the provider
   gave them, both URLs equal to the base URL followed by the numeric id,
   and every other key as before. *)
C5_StoredFields ==
    (/\ lastCall.op = "save_user_meeting"
     /\ ~HasTruthyMeetingId(lastCall.metaBefore)
     /\ lastCall.outcome = "returned")
    => LET m == lastCall.returned
       IN  /\ metadata = m
           /\ DOMAIN m = DOMAIN lastCall.metaBefore \cup WrittenKeys
           /\ m["user_id"] = lastCall.resp.users[1].id
           /\ m["meeting_id"] = lastCall.meeting.id
           /\ m["numeric_meeting_id"] = lastCall.meeting.numericMeetingId
           /\ m["meeting_url"] =
                  "https://bluejeans.com/" \o ToString(lastCall.meeting.numericMeetingId)
           /\ m["host_meeting_url"] = m["meeting_url"]
           /\ \A k \in DOMAIN lastCall.metaBefore \ WrittenKeys :
                  m[k] = lastCall.metaBefore[k]

C5_Witness ==
    /\ lastCall.op = "save_user_meeting"
    /\ lastCall.outcome = "returned"
    /\ HasMeetingId(lastCall.metaBefore)
    /\ ~HasTruthyMeetingId(lastCall.metaBefore)
    /\ lastCall.metaBefore["user_id"] # metadata["user_id"]
    /\ metadata["note"] = "kept"
    /\ metadata["meeting_url"] = "https://bluejeans.com/1234567890"

(* C6: the payload create_meeting posts when it is given no settings (None
   or an empty mapping) has end - start = 1 800 000 ms at every time; so
   has the payload save_user_meeting builds; settings that are given are
   posted as they are. *)
C6_DefaultWindow ==
    /\ (lastCall.op = "create_meeting" /\ lastCall.requests # <<>>)
       => IF lastCall.settings.isNone \/ lastCall.settings.map = <<>>
          THEN lastCall.payload.end - lastCall.payload.start = 1800 * 1000
          ELSE lastCall.payload = lastCall.settings.map
    /\ (lastCall.op = "save_user_meeting" /\ Len(lastCall.requests) = 2)
       => lastCall.payload.end - lastCall.payload.start = 1800 * 1000

C6_Witness ==
    /\ lastCall.op = "create_meeting"
    /\ lastCall.requests # <<>>
    /\ lastCall.settings = EmptySettings
    /\ now = MaxTime
    /\ lastCall.payload.start > 0

(* C7, as claimed: over the sequential save_user_meeting calls on one
   mapping at most one create-meeting request is issued, and once a call
   has created the meeting the mapping never changes again. *)
C7_AtMostOneCreateRequest ==
    [][/\ recordCreates' <= 1
       /\ recordMeetings >= 1 => metadata' = metadata]_vars

(* C7, amended: over the sequential save_user_meeting calls on one
   mapping, a call that fails or that stores a false meeting id may be
   followed by another create-meeting request; once the mapping holds a
   true meeting_id no request is issued, no meeting is created and the
   mapping never changes again. *)
C7_ProvisionedIsAbsorbing ==
    [][HasTruthyMeetingId(metadata)
       => /\ metadata' = metadata
          /\ recordCreates' = recordCreates
          /\ recordMeetings' = recordMeetings]_vars

C7_Witness ==
    /\ lastCall.op = "save_user_meeting"
    /\ lastCall.outcome = "returned"
    /\ HasTruthyMeetingId(lastCall.metaBefore)
    /\ recordMeetings >= 1
    /\ recordCreates >= 2

(* C8: in interleaved calls every caller that has found the user creates a
   meeting of its own, whatever the mapping holds by then, and the update
   of the mapping writes the caller's own meeting over what is there. *)
C8_NothingPreventsDuplicates ==
    [][\A t \in Callers :
          /\ (pc[t] = "create" /\ pc'[t] = "store")
             => recordMeetings' = recordMeetings + 1
          /\ (pc[t] = "store" /\ pc'[t] = "done")
             => /\ metadata'["meeting_id"] = local[t].meeting.id
                /\ metadata'["user_id"] = local[t].user.id]_vars

C8_Witness ==
    /\ pc[1] = "done" /\ pc[2] = "done"
    /\ local[1].assignee = local[2].assignee
    /\ recordMeetings = 2
    /\ local[1].meeting.id # local[2].meeting.id
    /\ metadata["meeting_id"] = local[2].meeting.id

(* C9: the stored expiry is now - expires_in - 60 of the last refresh, it
   is always earlier than the clock, and every access to the session
   issues a token request. *)
C9_ExpiryAlwaysPast ==
    /\ client.access_token_expires < now
    /\ lastTokenResp.valid
       => client.access_token_expires =
              lastTokenResp.at - (lastTokenResp.expires_in + 60) * TicksPerSec
    /\ \A a \in Accesses : a.requested

C9_Witness ==
    /\ lastCall.op = "read_meeting"
    /\ \E a \in Accesses : a.fresh /\ a.requested /\ ~a.raised
    /\ lastTokenResp.expires_in > 0

(* C10: every API request carries 'Bearer ' and the access token of the
   last successful token response, get_user uses that response's
   enterprise id, and a failed token request ends the call with no API
   request sent for it (the i-th session access of a call fails after
   i - 1 requests) and leaves token, expiry, enterprise id and header as
   they were. *)
C10_NoRequestWithoutToken ==
    /\ \A r \in Requests :
          /\ r.token # None
          /\ r.authorization = "Bearer " \o r.token
          /\ lastCall.op = "get_user"
             => r.url = "https://api.bluejeans.com/v1/enterprise/" \o r.enterprise
                            \o "/users"
    /\ lastCall.requests # <<>>
       => /\ lastTokenResp.valid
          /\ client.access_token = lastTokenResp.access_token
          /\ client.enterprise_id = lastTokenResp.enterprise
    /\ \A i \in DOMAIN lastCall.accesses :
          lastCall.accesses[i].raised
          => /\ lastCall.accesses[i].after = lastCall.accesses[i].before
             /\ lastCall.accesses[i].after = client
             /\ Len(lastCall.requests) = i - 1

C10_Witness ==
    /\ lastCall.op = "get_user"
    /\ \E a \in Accesses : a.raised /\ a.before.access_token # None
    /\ client.authorization # None

====
